---- MODULE Spec2Model ----
(***************************************************************************)
(* Model of src/context.ts of bake-action: the construction of the Inputs  *)
(* object (getInputs, getSourceInput) and the synthesis of the buildx bake *)
(* command line (getArgs, getBakeArgs, getCommonArgs).                     *)
(*                                                                         *)
(* Tokens and input values are strings.  A buildx / BuildKit version is    *)
(* its minor number (0.17.x is 17) and versionSatisfies('>=0.N.0') is a    *)
(* comparison against N.                                                   *)
(***************************************************************************)
EXTENDS Integers, Sequences, FiniteSets, TLC

VARIABLES raw, env, pc, inputs, orig, pre, result, first, calls

vars == <<raw, env, pc, inputs, orig, pre, result, first, calls>>

----------------------------------------------------------------------------
(* Bounds of the model *)

\* number of getArgs calls made on one Inputs object
MaxCalls == 2
\* longest user-supplied allow list
MaxAllow == 2
\* longest files / set / targets list
MaxList == 2

----------------------------------------------------------------------------
(* Version constraints of the source *)

MinMetadata == 6
MinAttest == 10
MinBuildkit == 11
MinCall == 16
MinAllow == 17
MinFsAllow == 18

\* one buildx version inside each interval the constraints cut out
BuildxVersions ==
  {MinMetadata - 1, MinMetadata, MinAttest, MinCall, MinAllow, MinFsAllow}

BuildkitVersions == {MinBuildkit - 1, MinBuildkit}

\* toolkit.buildx.versionSatisfies('>=0.N.0'), toolkit.buildkit.versionSatisfies
versionSatisfies(version, min) == version >= min

----------------------------------------------------------------------------
(* Values *)

MetadataFilePath == "<path>"
GitContextUrl == "https://github.com/o/r.git#refs/heads/main"

\* the flags getBakeArgs and getCommonArgs can emit
Flags ==
  {"--allow", "--call", "--file", "--set", "--metadata-file", "--provenance",
   "--sbom", "--no-cache", "--builder", "--pull", "--load", "--push"}

SourceTemplates == {"", ".", "src", "{{defaultContext}}", "{{missing}}", "{{"}
GitContexts == {".", GitContextUrl}
AllowValues == {"fs=*", "network.host"}
FileList == <<"docker-bake.hcl", "b.hcl", "c.hcl", "d.hcl">>
SetList == <<"*.platform=linux/amd64", "app.tags=t", "app.args.A=1", "x.y=z">>
TargetList == <<"app", "db", "web", "lint">>

SeqsUpTo(S, n) == UNION {[1..k -> S] : k \in 0..n}
Prefixes(list, n) == {SubSeq(list, 1, k) : k \in 0..n}

----------------------------------------------------------------------------
(* Input Model *)

\* `handlebars.compile(tpl)({defaultContext: ctx})`: a literal renders as
\* itself, a known variable as its value, a missing one as the empty
\* string, and an unterminated mustache is a parse error that is thrown.
handlebarsRender(tpl, ctx) ==
  CASE tpl = "{{defaultContext}}" -> [threw |-> FALSE, value |-> ctx]
    [] tpl = "{{missing}}"        -> [threw |-> FALSE, value |-> ""]
    [] tpl = "{{"                 -> [threw |-> TRUE, value |-> ""]
    [] OTHER                      -> [threw |-> FALSE, value |-> tpl]

\* mutant: a variant that swallows the template error and falls back
getSourceInputSwallow(tpl, ctx) ==
  LET r == handlebarsRender(tpl, ctx)
      s1 == IF r.threw \/ r.value = "" THEN ctx ELSE r.value
  IN  [threw |-> FALSE, value |-> IF s1 = "." THEN "" ELSE s1]

\* mutant: a variant that forgets the '.' normalisation of the fallback
getSourceInputNoDot(tpl, ctx) ==
  LET r == handlebarsRender(tpl, ctx)
  IN  IF r.threw THEN [threw |-> TRUE, value |-> ""]
      ELSE IF r.value = "" THEN [threw |-> FALSE, value |-> ctx]
      ELSE [threw |-> FALSE, value |-> IF r.value = "." THEN "" ELSE r.value]

getSourceInput(tpl, ctx) ==
  LET r == handlebarsRender(tpl, ctx)
  IN  IF r.threw THEN [threw |-> TRUE, value |-> ""]
      ELSE LET s1 == IF r.value = "" THEN ctx ELSE r.value
           IN  [threw |-> FALSE, value |-> IF s1 = "." THEN "" ELSE s1]

\* the Inputs object (github-token is written token)
getInputsValue(r, source) ==
  [builder    |-> r.builder,
   workdir    |-> IF r.workdir = "" THEN "." ELSE r.workdir,
   source     |-> source,
   allow      |-> r.allow,
   call       |-> r.call,
   files      |-> r.files,
   nocache    |-> r.nocache,
   pull       |-> r.pull,
   load       |-> r.load,
   provenance |-> r.provenance,
   push       |-> r.push,
   sbom       |-> r.sbom,
   set        |-> r.set,
   targets    |-> r.targets,
   token      |-> r.token]

----------------------------------------------------------------------------
(* Argument synthesis *)

\* `asyncForEach(list, async x => args.push(flag, x))`
FlagPairs(flag, list) ==
  [i \in 1..(2 * Len(list)) |-> IF i % 2 = 1 THEN flag ELSE list[(i + 1) \div 2]]

sourceArgs(in) == IF in.source # "" THEN <<in.source>> ELSE <<>>

\* mutant: 'fs=*' is added only when the list does not hold it yet
allowAfterDedup(in, e) ==
  IF versionSatisfies(e.buildx, MinAllow)
     /\ versionSatisfies(e.buildx, MinFsAllow)
     /\ \A i \in 1..Len(in.allow) : in.allow[i] # "fs=*"
  THEN Append(in.allow, "fs=*")
  ELSE in.allow

\* mutant: 'fs=*' is added from 0.17.0 on
allowAfterEarly(in, e) ==
  IF versionSatisfies(e.buildx, MinAllow)
  THEN Append(in.allow, "fs=*")
  ELSE in.allow

\* inputs.allow after `inputs.allow.push('fs=*')`
allowAfter(in, e) ==
  IF versionSatisfies(e.buildx, MinAllow)
     /\ versionSatisfies(e.buildx, MinFsAllow)
  THEN Append(in.allow, "fs=*")
  ELSE in.allow

\* mutant: the entitlements are emitted whatever the buildx version
allowArgsUngated(in, e) == FlagPairs("--allow", allowAfter(in, e))

allowArgs(in, e) ==
  IF versionSatisfies(e.buildx, MinAllow)
  THEN FlagPairs("--allow", allowAfter(in, e))
  ELSE <<>>

\* mutant: the call flag is silently dropped instead of failing
callThrowsNever(in, e) == FALSE

callThrows(in, e) == in.call # "" /\ ~versionSatisfies(e.buildx, MinCall)

callArgs(in) == IF in.call # "" THEN <<"--call", in.call>> ELSE <<>>

metadataArgs(e) ==
  IF versionSatisfies(e.buildx, MinMetadata)
  THEN <<"--metadata-file", MetadataFilePath>>
  ELSE <<>>

\* Util.parseBool on its accepted spellings
parseBool(s) == s \in {"1", "t", "T", "true", "TRUE", "True"}

noDefaultAttestations(e) ==
  IF e.noDefaultAttestations # "" THEN parseBool(e.noDefaultAttestations) ELSE FALSE

\* Build.resolveProvenanceAttrs: the attributes with the builder id added
resolveProvenanceAttrs(attrs) ==
  CASE attrs = "mode=min,inline-only=true" ->
         "mode=min,inline-only=true,builder-id=<run-url>"
    [] attrs = "mode=max" -> "mode=max,builder-id=<run-url>"
    [] OTHER -> attrs

\* `GitHub.context.payload.repository?.private ?? false`
repositoryPrivate(e) == e.repository = "private"

\* mutant: the default provenance ignores the docker exporter
provenanceArgsLoad(in, e) ==
  IF in.provenance # ""
  THEN <<"--provenance", in.provenance>>
  ELSE IF ~noDefaultAttestations(e)
          /\ versionSatisfies(e.buildkit, MinBuildkit)
       THEN IF repositoryPrivate(e)
            THEN <<"--provenance", resolveProvenanceAttrs("mode=min,inline-only=true")>>
            ELSE <<"--provenance", resolveProvenanceAttrs("mode=max")>>
       ELSE <<>>

\* mutant: the default provenance ignores BUILDX_NO_DEFAULT_ATTESTATIONS
provenanceArgsNoOptOut(in, e) ==
  IF in.provenance # ""
  THEN <<"--provenance", in.provenance>>
  ELSE IF versionSatisfies(e.buildkit, MinBuildkit)
          /\ ~e.hasDockerExporter
       THEN IF repositoryPrivate(e)
            THEN <<"--provenance", resolveProvenanceAttrs("mode=min,inline-only=true")>>
            ELSE <<"--provenance", resolveProvenanceAttrs("mode=max")>>
       ELSE <<>>

provenanceArgs(in, e) ==
  IF in.provenance # ""
  THEN <<"--provenance", in.provenance>>
  ELSE IF ~noDefaultAttestations(e)
          /\ versionSatisfies(e.buildkit, MinBuildkit)
          /\ ~e.hasDockerExporter
       THEN IF repositoryPrivate(e)
            THEN <<"--provenance", resolveProvenanceAttrs("mode=min,inline-only=true")>>
            ELSE <<"--provenance", resolveProvenanceAttrs("mode=max")>>
       ELSE <<>>

sbomArgs(in) == IF in.sbom # "" THEN <<"--sbom", in.sbom>> ELSE <<>>

attestArgs(in, e) ==
  IF versionSatisfies(e.buildx, MinAttest)
  THEN provenanceArgs(in, e) \o sbomArgs(in)
  ELSE <<>>

\* threw: the Error of the call gate; allow: inputs.allow when the function
\* is left (the push of 'fs=*' precedes the gate)
getBakeArgs(in, e) ==
  [threw |-> callThrows(in, e),
   allow |-> allowAfter(in, e),
   args  |-> IF callThrows(in, e) THEN <<>>
             ELSE <<"bake">> \o sourceArgs(in) \o allowArgs(in, e) \o callArgs(in)
                  \o FlagPairs("--file", in.files) \o FlagPairs("--set", in.set)
                  \o metadataArgs(e) \o attestArgs(in, e)]

\* mutant: --push is pushed before --load
getCommonArgsSwapped(in) ==
  (IF in.nocache THEN <<"--no-cache">> ELSE <<>>)
  \o (IF in.builder # "" THEN <<"--builder", in.builder>> ELSE <<>>)
  \o (IF in.pull THEN <<"--pull">> ELSE <<>>)
  \o (IF in.push THEN <<"--push">> ELSE <<>>)
  \o (IF in.load THEN <<"--load">> ELSE <<>>)

getCommonArgs(in) ==
  (IF in.nocache THEN <<"--no-cache">> ELSE <<>>)
  \o (IF in.builder # "" THEN <<"--builder", in.builder>> ELSE <<>>)
  \o (IF in.pull THEN <<"--pull">> ELSE <<>>)
  \o (IF in.load THEN <<"--load">> ELSE <<>>)
  \o (IF in.push THEN <<"--push">> ELSE <<>>)

\* status: "ok" with the token list, or "threw"; inputs: the object after
\* the call
getArgs(in, e) ==
  LET b   == getBakeArgs(in, e)
      in1 == [in EXCEPT !.allow = b.allow]
  IN  [status |-> IF b.threw THEN "threw" ELSE "ok",
       args   |-> IF b.threw THEN <<>>
                  ELSE b.args \o getCommonArgs(in1) \o in1.targets,
       inputs |-> in1]

----------------------------------------------------------------------------
(* State machine *)

NoResult == [status |-> "none", args |-> <<>>]

DefaultRaw ==
  [builder |-> "", workdir |-> "", source |-> ".", allow |-> <<>>, call |-> "",
   files |-> <<"docker-bake.hcl">>, nocache |-> FALSE, pull |-> FALSE,
   load |-> TRUE, provenance |-> "", push |-> FALSE, sbom |-> "", set |-> <<>>,
   targets |-> <<"app">>, token |-> ""]

DefaultEnv ==
  [gitContext |-> GitContextUrl, buildx |-> MinFsAllow, buildkit |-> MinBuildkit,
   hasDockerExporter |-> TRUE, repository |-> "public",
   noDefaultAttestations |-> ""]

\* the source template, the git context and the working directory vary
SourceCases ==
  {<<[DefaultRaw EXCEPT !.source = s, !.workdir = w, !.call = c],
     [DefaultEnv EXCEPT !.gitContext = g, !.buildx = v]>> :
     s \in SourceTemplates, w \in {"", "wd"}, c \in {"", "check"},
     g \in GitContexts, v \in BuildxVersions}

\* the common arguments and the lists vary
CommonCases ==
  {<<[DefaultRaw EXCEPT !.builder = b, !.nocache = t[1], !.pull = t[2],
                        !.load = t[3], !.push = t[4], !.files = f, !.set = s,
                        !.targets = tg, !.call = c],
     [DefaultEnv EXCEPT !.buildx = v]>> :
     b \in {"", "mybuilder"}, t \in [1..4 -> BOOLEAN],
     f \in Prefixes(FileList, MaxList), s \in Prefixes(SetList, MaxList),
     tg \in Prefixes(TargetList, MaxList), c \in {"", "check"},
     v \in BuildxVersions}

\* the entitlements, the call flag and the buildx version vary
EntitlementCases ==
  {<<[DefaultRaw EXCEPT !.allow = a, !.call = c, !.source = s, !.files = f],
     [DefaultEnv EXCEPT !.buildx = v]>> :
     a \in SeqsUpTo(AllowValues, MaxAllow), c \in {"", "check"},
     s \in {".", "src"}, f \in Prefixes(FileList, MaxList),
     v \in BuildxVersions}

\* the attestation inputs and everything the default provenance reads vary
AttestationCases ==
  {<<[DefaultRaw EXCEPT !.provenance = p, !.sbom = sb, !.load = l, !.call = c,
                        !.allow = a, !.token = "ghs_token"],
     [DefaultEnv EXCEPT !.buildx = v, !.buildkit = k, !.hasDockerExporter = d,
                        !.repository = r, !.noDefaultAttestations = n]>> :
     p \in {"", "mode=min"}, sb \in {"", "true"}, l \in BOOLEAN,
     c \in {"", "check"}, a \in {<<>>, <<"network.host">>},
     v \in BuildxVersions, k \in BuildkitVersions, d \in BOOLEAN,
     r \in {"private", "public", "unknown"}, n \in {"", "true", "0"}}

Cases == SourceCases \cup CommonCases \cup EntitlementCases \cup AttestationCases

EmptyInputs == getInputsValue([DefaultRaw EXCEPT !.files = <<>>, !.targets = <<>>], "")

Init ==
  /\ \E c \in Cases : raw = c[1] /\ env = c[2]
  /\ pc = "start"
  /\ inputs = EmptyInputs
  /\ orig = EmptyInputs
  /\ pre = EmptyInputs
  /\ result = NoResult
  /\ first = NoResult
  /\ calls = 0

\* getInputs: builds the Inputs object, or fails with the template error
GetInputs ==
  /\ pc = "start"
  /\ LET s == getSourceInput(raw.source, env.gitContext)
     IN  IF s.threw
         THEN pc' = "threw" /\ UNCHANGED <<inputs, orig>>
         ELSE /\ pc' = "ready"
              /\ inputs' = getInputsValue(raw, s.value)
              /\ orig' = inputs'
  /\ UNCHANGED <<raw, env, pre, result, first, calls>>

\* one call getArgs(inputs, definition, toolkit) on the Inputs object
GetArgs ==
  /\ pc = "ready"
  /\ calls < MaxCalls
  /\ LET r == getArgs(inputs, env)
     IN  /\ result' = [status |-> r.status, args |-> r.args]
         /\ inputs' = r.inputs
         /\ first' = IF calls = 0 THEN result' ELSE first
  /\ pre' = inputs
  /\ calls' = calls + 1
  /\ UNCHANGED <<raw, env, pc, orig>>

Next == GetInputs \/ GetArgs

Spec == Init /\ [][Next]_vars

----------------------------------------------------------------------------
(* Vocabulary of the properties *)

\* the last getArgs call returned a token list / failed
Returned == calls > 0 /\ result.status = "ok"
Failed == calls > 0 /\ result.status = "threw"

Positions(args, tok) == {i \in 1..Len(args) : args[i] = tok}
Has(args, tok) == Positions(args, tok) # {}

\* the values that follow the occurrences of a flag, in order
ValuesOf(args, flag) ==
  LET F[i \in 0..Len(args)] ==
        IF i = 0 THEN <<>>
        ELSE IF i > 1 /\ args[i - 1] = flag THEN Append(F[i - 1], args[i])
        ELSE F[i - 1]
  IN  F[Len(args)]

CountOf(list, x) == Cardinality({i \in 1..Len(list) : list[i] = x})

\* the subsequence of list selected by the booleans of mask
Selected(list, mask) ==
  LET F[i \in 0..Len(list)] ==
        IF i = 0 THEN <<>>
        ELSE IF mask[i] THEN Append(F[i - 1], list[i]) ELSE F[i - 1]
  IN  F[Len(list)]

Repeat(x, n) == [i \in 1..n |-> x]

Sat(min) == env.buildx >= min

----------------------------------------------------------------------------
(* C1 *)

ExpectedCommon(in) ==
  Selected(<<"--no-cache", "--builder", in.builder, "--pull", "--load", "--push">>,
           <<in.nocache, in.builder # "", in.builder # "", in.pull, in.load, in.push>>)

\* C1: every token list getArgs returns is the bake-specific arguments
\* (first token 'bake'), then the subsequence of --no-cache, --builder
\* <builder>, --pull, --load, --push selected by the five inputs, then the
\* targets verbatim; the list ends with the targets and no flag follows the
\* first target.
C1_ThreePhases ==
  Returned =>
    LET args == result.args
        n    == Len(args)
        t    == Len(pre.targets)
        c    == Len(ExpectedCommon(pre))
        b    == n - t - c
    IN  /\ b >= 1
        /\ args[1] = "bake"
        /\ SubSeq(args, 1, b) = getBakeArgs(pre, env).args
        /\ SubSeq(args, b + 1, b + c) = ExpectedCommon(pre)
        /\ SubSeq(args, n - t + 1, n) = pre.targets
        /\ \A i \in (n - t + 1)..n : args[i] \notin Flags
        /\ \A f \in {"--no-cache", "--builder", "--pull", "--load", "--push"} :
             \A i \in Positions(args, f) : i > b /\ i <= b + c

C1_Witness ==
  /\ Returned
  /\ pre.nocache /\ pre.builder # "" /\ ~pre.pull /\ pre.load /\ pre.push
  /\ Len(pre.targets) = 2
  /\ Len(pre.files) = 2

----------------------------------------------------------------------------
(* C2 *)

\* C2: with call set and buildx below 0.16.0 getArgs fails and returns no
\* list; with call set and buildx at 0.16.0 or above the adjacent tokens
\* --call <call> are in the list, after every --allow pair and before the
\* first --file pair; with call empty there is no --call token and the call
\* gate causes no failure.
C2_CallGate ==
  calls > 0 =>
    /\ (pre.call # "" /\ ~Sat(MinCall)) =>
         (result.status = "threw" /\ result.args = <<>>)
    /\ (pre.call # "" /\ Sat(MinCall)) =>
         /\ result.status = "ok"
         /\ Cardinality(Positions(result.args, "--call")) = 1
         /\ \A i \in Positions(result.args, "--call") :
              /\ i < Len(result.args)
              /\ result.args[i + 1] = pre.call
              /\ \A j \in Positions(result.args, "--allow") : j + 1 < i
              /\ \A j \in Positions(result.args, "--file") : j > i + 1
    /\ pre.call = "" =>
         (result.status = "ok" /\ ~Has(result.args, "--call"))

C2_Witness ==
  /\ Returned
  /\ pre.call = "check"
  /\ Has(result.args, "--call")
  /\ Cardinality(Positions(result.args, "--allow")) >= 2
  /\ Cardinality(Positions(result.args, "--file")) >= 2

C2_WitnessFails == Failed /\ pre.call = "check" /\ pre.allow # <<>>

----------------------------------------------------------------------------
(* C3 *)

\* C3: with buildx at 0.18.0 or above, whatever the user-supplied allow
\* list, 'fs=*' is among the --allow values one getArgs call emits, exactly
\* once.
C3_FsOnce ==
  (calls = 1 /\ Sat(MinFsAllow) /\ result.status = "ok") =>
    CountOf(ValuesOf(result.args, "--allow"), "fs=*") = 1

----------------------------------------------------------------------------
(* C4 *)

DefaultProvenanceDue ==
  /\ env.noDefaultAttestations \notin {"1", "t", "T", "true", "TRUE", "True"}
  /\ env.buildkit >= MinBuildkit
  /\ ~env.hasDockerExporter

DefaultProvenanceRule ==
  (pre.provenance = "" /\ Sat(MinAttest)) =>
    LET pv == ValuesOf(result.args, "--provenance")
    IN  /\ (pv # <<>>) <=> DefaultProvenanceDue
        /\ pv # <<>> =>
             pv = << IF env.repository = "private"
                     THEN resolveProvenanceAttrs("mode=min,inline-only=true")
                     ELSE resolveProvenanceAttrs("mode=max") >>
        /\ parseBool(env.noDefaultAttestations) => pv = <<>>

\* C4 as stated: the rule of the default provenance, and a user-supplied
\* provenance is emitted verbatim, exactly once, whenever it is non-empty.
C4_AsStated ==
  Returned =>
    /\ DefaultProvenanceRule
    /\ pre.provenance # "" =>
         ValuesOf(result.args, "--provenance") = <<pre.provenance>>

\* C4 (amended): in a returned token list, with provenance empty and buildx
\* at 0.10.0 or above the default --provenance pair is emitted exactly when
\* the opt-out is not true, BuildKit is at 0.11.0 or above and the
\* definition has no docker exporter given load, with mode=min,inline-only=true
\* for a private repository and mode=max otherwise; with provenance
\* non-empty and buildx at 0.10.0 or above exactly one --provenance pair is
\* emitted, with the user's value; below 0.10.0 none is emitted.
C4_Provenance ==
  Returned =>
    /\ DefaultProvenanceRule
    /\ (pre.provenance # "" /\ Sat(MinAttest)) =>
         ValuesOf(result.args, "--provenance") = <<pre.provenance>>
    /\ ~Sat(MinAttest) => ~Has(result.args, "--provenance")

C4_Witness ==
  /\ Returned
  /\ pre.provenance = "" /\ Sat(MinAttest) /\ DefaultProvenanceDue
  /\ env.repository = "private"
  /\ Has(result.args, "--provenance")

C4_WitnessUser ==
  /\ Returned
  /\ pre.provenance # "" /\ Sat(MinAttest)
  /\ Has(result.args, "--provenance")

----------------------------------------------------------------------------
(* C5 *)

----------------------------------------------------------------------------
(* C6 *)

Evaluated == handlebarsRender(raw.source, env.gitContext).value

\* C6: the resolved source is decided by the template and the git context:
\* '.' gives the empty source, an empty evaluation gives the git context
\* (empty when that is '.'), any other evaluated value is kept; it is never
\* '.'; and a returned token list has the source right after 'bake' exactly
\* when the source is non-empty.
C6_Source ==
  pc = "ready" =>
    /\ raw.source = "." => inputs.source = ""
    /\ Evaluated = "" =>
         inputs.source = (IF env.gitContext = "." THEN "" ELSE env.gitContext)
    /\ Evaluated \notin {"", "."} => inputs.source = Evaluated
    /\ inputs.source # "."
    /\ Returned =>
         /\ inputs.source # "" =>
              (Len(result.args) >= 2 /\ result.args[2] = inputs.source)
         /\ inputs.source = "" =>
              \/ Len(result.args) = 1
              \/ result.args[2] \in Flags
              \/ result.args = <<"bake">> \o inputs.targets

C6_Witness ==
  /\ Returned
  /\ raw.source = "{{defaultContext}}"
  /\ inputs.source = GitContextUrl
  /\ result.args[2] = GitContextUrl

C6_WitnessDot ==
  /\ Returned
  /\ raw.source = "" /\ env.gitContext = "."
  /\ inputs.source = ""

----------------------------------------------------------------------------
(* C7 *)

ExampleInputs ==
  /\ pre.builder = "" /\ pre.source = "" /\ pre.allow = <<>> /\ pre.call = ""
  /\ pre.files = <<"docker-bake.hcl">>
  /\ ~pre.nocache /\ ~pre.pull /\ pre.load /\ ~pre.push
  /\ pre.provenance = "" /\ pre.sbom = "" /\ pre.set = <<>>
  /\ pre.targets = <<"app">>
  /\ Sat(MinFsAllow) /\ env.buildkit >= MinBuildkit
  /\ env.hasDockerExporter /\ env.repository = "public"

\* C7: the end-to-end example returns bake --allow fs=* --file
\* docker-bake.hcl --metadata-file <path> --load app.
C7_Example ==
  (calls > 0 /\ ExampleInputs) =>
    /\ result.status = "ok"
    /\ result.args = <<"bake", "--allow", "fs=*", "--file", "docker-bake.hcl",
                       "--metadata-file", MetadataFilePath, "--load", "app">>

C7_Witness == Returned /\ ExampleInputs /\ env.noDefaultAttestations = ""

----------------------------------------------------------------------------
(* C8 *)

TemplateFails == handlebarsRender(raw.source, env.gitContext).threw

\* C8 as stated: a template evaluation failure is handled like an empty
\* input: resolution does not fail and the source is the git context,
\* normalised.
C8_AsStated ==
  (TemplateFails /\ pc # "start") =>
    /\ pc = "ready"
    /\ inputs.source = (IF env.gitContext = "." THEN "" ELSE env.gitContext)

\* C8 (amended): a template evaluation failure is not handled: it leaves
\* getSourceInput as an error, no Inputs object is built and getArgs never
\* runs; only an empty evaluation falls back to the git context.
C8_TemplateErrorPropagates ==
  /\ (TemplateFails /\ pc # "start") =>
       (pc = "threw" /\ inputs = EmptyInputs /\ calls = 0)
  /\ (~TemplateFails /\ pc # "start") => pc = "ready"
  /\ (pc = "ready" /\ Evaluated = "") =>
       inputs.source = (IF env.gitContext = "." THEN "" ELSE env.gitContext)

C8_Witness == TemplateFails /\ pc = "threw"

----------------------------------------------------------------------------
(* C9 *)

\* C9: a getArgs call, returning or failing, leaves every field of the
\* Inputs object but allow as it was; allow changes only when buildx
\* satisfies >=0.17.0 and >=0.18.0, by one 'fs=*' appended; a call that
\* fails on the call gate leaves allow unchanged.
C9_Frame ==
  calls > 0 =>
    /\ [inputs EXCEPT !.allow = <<>>] = [pre EXCEPT !.allow = <<>>]
    /\ (Sat(MinAllow) /\ Sat(MinFsAllow)) =>
         inputs.allow = pre.allow \o <<"fs=*">>
    /\ ~(Sat(MinAllow) /\ Sat(MinFsAllow)) => inputs.allow = pre.allow
    /\ result.status = "threw" => inputs.allow = pre.allow

C9_Witness ==
  /\ Returned
  /\ Sat(MinFsAllow)
  /\ Len(pre.allow) = 2 /\ pre.allow[1] # pre.allow[2]
  /\ Len(inputs.allow) = 3

C9_WitnessFails == Failed /\ pre.allow # <<>> /\ inputs.allow = pre.allow

----------------------------------------------------------------------------
(* C10 *)

\* C10: on one Inputs object with buildx at 0.18.0 or above, after n calls
\* allow is the original list followed by n entries 'fs=*' and the n-th call
\* emits exactly these as its --allow pairs; below 0.18.0 every call returns
\* what the first returned and allow never grows.
C10_Reuse ==
  pc = "ready" =>
    /\ Sat(MinFsAllow) =>
         /\ inputs.allow = orig.allow \o Repeat("fs=*", calls)
         /\ calls > 0 =>
              /\ result.status = "ok"
              /\ ValuesOf(result.args, "--allow")
                   = orig.allow \o Repeat("fs=*", calls)
              /\ Cardinality(Positions(result.args, "--allow"))
                   = Len(orig.allow) + calls
    /\ ~Sat(MinFsAllow) =>
         /\ inputs.allow = orig.allow
         /\ calls > 0 => result = first

C10_Witness ==
  /\ Returned
  /\ calls >= 2
  /\ Sat(MinFsAllow)
  /\ orig.allow = <<"network.host", "fs=*">>
  /\ Len(inputs.allow) = 2 + calls

C10_WitnessOld == Returned /\ calls >= 2 /\ ~Sat(MinFsAllow) /\ Sat(MinAllow) /\ orig.allow # <<>>

====
